---- MODULE Spec2Model ----
(***************************************************************************)
(* Model of substrate/frame/contracts/fixtures/build.rs: the build script  *)
(* that compiles the contract fixtures to wasm, keyed by a content hash    *)
(* marker in OUT_DIR.                                                      *)
(*                                                                         *)
(* Files are byte sequences; a fingerprint is the XxHash32 of the source   *)
(* bytes followed by the bytes of build.rs, printed in hexadecimal.  The   *)
(* output directory is a set of marker names plus one optional binary per  *)
(* output file name.  A run of main() is a sequence of steps, one per      *)
(* statement of main() and one per write of write_output().                *)
(***************************************************************************)
EXTENDS Integers, Sequences, FiniteSets, TLC

(***************************************************************************)
(* 32-bit words.  A word is the pair <<high half, low half>> of its two    *)
(* 16-bit halves, so that u32 wrapping arithmetic is exact and no          *)
(* intermediate value leaves the range of the model checker's integers.    *)
(***************************************************************************)
Half == 65536

Word(n) == <<n \div Half, n % Half>>

\* A word from its eight hexadecimal digits, most significant digit first.
WordFromHex(ds) ==
    <<((ds[1] * 16 + ds[2]) * 16 + ds[3]) * 16 + ds[4],
      ((ds[5] * 16 + ds[6]) * 16 + ds[7]) * 16 + ds[8]>>

wrapping_add(a, b) ==
    <<(a[1] + b[1] + ((a[2] + b[2]) \div Half)) % Half, (a[2] + b[2]) % Half>>

\* The product of two 16-bit halves, as a word, from 8-bit partial products.
HalfMul(x, y) ==
    <<((x \div 256) * (y \div 256)
        + (((x \div 256) * (y % 256) + (x % 256) * (y \div 256)) \div 256)
        + (((x % 256) * (y % 256)
            + ((((x \div 256) * (y % 256) + (x % 256) * (y \div 256)) % 256) * 256)) \div Half)) % Half,
      ((x % 256) * (y % 256)
        + ((((x \div 256) * (y % 256) + (x % 256) * (y \div 256)) % 256) * 256)) % Half>>

wrapping_mul(a, b) ==
    <<(HalfMul(a[2], b[2])[1] + HalfMul(a[1], b[2])[2] + HalfMul(a[2], b[1])[2]) % Half,
      HalfMul(a[2], b[2])[2]>>

RECURSIVE HalfXor(_, _)
HalfXor(x, y) ==
    IF x = 0 THEN y
    ELSE IF y = 0 THEN x
    ELSE ((x + y) % 2) + 2 * HalfXor(x \div 2, y \div 2)

BitXor(a, b) == <<HalfXor(a[1], b[1]), HalfXor(a[2], b[2])>>

\* a >> k for 0 < k <= 16
ShiftRight(a, k) ==
    IF k = 16 THEN <<0, a[1]>>
    ELSE <<a[1] \div (2^k), (a[2] \div (2^k)) + (a[1] % (2^k)) * (2^(16-k))>>

\* a.rotate_left(k) for 0 < k < 32, k # 16
rotate_left(a, k) ==
    IF k > 16
    THEN <<(a[2] % (2^(32-k))) * (2^(k-16)) + (a[1] \div (2^(32-k))),
           (a[1] % (2^(32-k))) * (2^(k-16)) + (a[2] \div (2^(32-k)))>>
    ELSE <<(a[1] % (2^(16-k))) * (2^k) + (a[2] \div (2^(16-k))),
           (a[2] % (2^(16-k))) * (2^k) + (a[1] \div (2^(16-k)))>>

(***************************************************************************)
(* XxHash32 (twox_hash), seed 0 as given by XxHash32::default().           *)
(***************************************************************************)
PRIME32_1 == WordFromHex(<<9, 14, 3, 7, 7, 9, 11, 1>>)
PRIME32_2 == WordFromHex(<<8, 5, 14, 11, 12, 10, 7, 7>>)
PRIME32_3 == WordFromHex(<<12, 2, 11, 2, 10, 14, 3, 13>>)
PRIME32_4 == WordFromHex(<<2, 7, 13, 4, 14, 11, 2, 15>>)
PRIME32_5 == WordFromHex(<<1, 6, 5, 6, 6, 7, 11, 1>>)

\* The little-endian 32-bit word at bytes k..k+3 of the input.
ReadLE32(bytes, k) == <<bytes[k+3] * 256 + bytes[k+2], bytes[k+1] * 256 + bytes[k]>>

\* Inputs shorter than 16 bytes skip the four-lane stripe loop; the model
\* hashes only such inputs.
RECURSIVE Finalize(_, _, _)
Finalize(bytes, k, h) ==
    IF k + 3 <= Len(bytes)
    THEN Finalize(bytes, k + 4,
              wrapping_mul(rotate_left(wrapping_add(h, wrapping_mul(ReadLE32(bytes, k), PRIME32_3)), 17),
                           PRIME32_4))
    ELSE IF k <= Len(bytes)
    THEN Finalize(bytes, k + 1,
              wrapping_mul(rotate_left(wrapping_add(h, wrapping_mul(Word(bytes[k]), PRIME32_5)), 11),
                           PRIME32_1))
    ELSE h

\* h ^= h >> s; h *= p
XorShiftMul(h, s, p) == wrapping_mul(BitXor(h, ShiftRight(h, s)), p)

XorShift(h, s) == BitXor(h, ShiftRight(h, s))

Avalanche(h) == XorShift(XorShiftMul(XorShiftMul(h, 15, PRIME32_2), 13, PRIME32_3), 16)

XxHash32(bytes) ==
    Avalanche(Finalize(bytes, 1, wrapping_add(wrapping_add(Word(0), PRIME32_5), Word(Len(bytes)))))

(***************************************************************************)
(* format!("{:x}", hash): lower-case hexadecimal without leading zeros.    *)
(***************************************************************************)
HexChars == <<"0", "1", "2", "3", "4", "5", "6", "7", "8", "9", "a", "b", "c", "d", "e", "f">>

\* The n-th hexadecimal digit of w, n = 1 being the least significant.
Nibble(w, n) == IF n > 4 THEN (w[1] \div (16^(n-5))) % 16 ELSE (w[2] \div (16^(n-1))) % 16

RECURSIVE HexFrom(_, _)
HexFrom(w, n) ==
    IF n = 0 THEN <<>> ELSE <<HexChars[Nibble(w, n) + 1]>> \o HexFrom(w, n - 1)

RECURSIVE TopNibble(_, _)
TopNibble(w, n) == IF n = 1 \/ Nibble(w, n) # 0 THEN n ELSE TopNibble(w, n - 1)

FormatHex(w) == HexFrom(w, TopNibble(w, 8))

(***************************************************************************)
(* Files.  A file name is its sequence of characters; file contents are    *)
(* byte sequences.                                                         *)
(***************************************************************************)
ContractA == <<"a", ".", "r", "s">>
ContractB == <<"b", ".", "r", "s">>
Notes == <<"n", ".", "t", "x", "t">>

\* A contract whose file stem is not an identifier.
ContractDigit == <<"1", ".", "r", "s">>

\* A contract whose file stem has a dot in it.
ContractAB == <<"a", ".", "b", ".", "r", "s">>

\* A child of the directory without an extension (contracts/common, the
\* crate of line 102, is a directory).
Common == <<"c", "o", "m", "m", "o", "n">>

FileNames == {ContractA, ContractB, Notes}

Contents == {<<1>>, <<2>>}

\* The versions of build.rs itself (include_bytes!("build.rs")).
Pipelines == {<<7>>, <<8>>}

NoFile == [kind |-> "none"]

\* A subdirectory: fs::read of it fails.
Directory == [kind |-> "dir"]

SourceFile(bytes) == [kind |-> "source", bytes |-> bytes]

\* A zero-byte file, as written by fs::write(path, "").
EmptyFile == [kind |-> "empty"]

\* A wasm file in OUT_DIR: the source bytes and the build.rs version it was
\* built from; complete is FALSE for a file left behind by a failed write.
WasmFile(bytes, pipeline, complete) ==
    [kind |-> "wasm", bytes |-> bytes, pipeline |-> pipeline, complete |-> complete]

RECURSIVE LastDot(_, _)
LastDot(name, i) == IF i = 0 \/ name[i] = "." THEN i ELSE LastDot(name, i - 1)

None == [some |-> FALSE]

Some(v) == [some |-> TRUE, val |-> v]

\* Path::extension
extension(name) ==
    IF LastDot(name, Len(name)) <= 1 THEN None
    ELSE Some(SubSeq(name, LastDot(name, Len(name)) + 1, Len(name)))

\* As file_stem, but the name is cut at its first dot (Path::file_prefix).
file_prefix(name) ==
    LET dots == {i \in 2..Len(name) : name[i] = "."}
    IN  IF dots = {} THEN name
        ELSE SubSeq(name, 1, (CHOOSE i \in dots : \A j \in dots : i <= j) - 1)

\* Path::file_stem
file_stem(name) ==
    IF LastDot(name, Len(name)) <= 1 THEN name
    ELSE SubSeq(name, 1, LastDot(name, Len(name)) - 1)

\* hasher.write(&data); hasher.write(include_bytes!("build.rs")); finish(); {:x}
Fingerprint(data, pipeline) == FormatHex(XxHash32(data \o pipeline))

\* The fingerprints of all files of the model, computed once.
Fingerprints ==
    {[data |-> c, pipeline |-> b, hash |-> Fingerprint(c, b)] : c \in Contents, b \in Pipelines}

file_hash(data, pipeline) ==
    (CHOOSE row \in Fingerprints : row.data = data /\ row.pipeline = pipeline).hash

\* As Entry_new, but the hash depends on the path of the file as well.
Entry_new_by_path(path, dir, pipeline) ==
    [path |-> path,
     hash |-> file_hash(dir[path].bytes,
                        IF path = ContractA THEN pipeline ELSE <<15 - pipeline[1]>>)]

\* In place of the hash when file_hash panics: fs::read(path).expect(..) of
\* something that is not a readable file.
ReadFailed == <<"!">>

Entry_new(path, dir, pipeline) ==
    [path |-> path,
     hash |-> IF dir[path].kind = "source" THEN file_hash(dir[path].bytes, pipeline)
              ELSE ReadFailed]

Entry_name(entry) == file_stem(entry.path)

out_wasm_filename(entry) == Entry_name(entry) \o <<".", "w", "a", "s", "m">>

exists(dir, name) == name \in DOMAIN dir /\ dir[name].kind # "none"

\* As collect_entries, but without the look-up of the marker in OUT_DIR.
RECURSIVE collect_all_entries(_, _, _, _)
collect_all_entries(listing, dir, pipeline, out) ==
    IF listing = <<>> THEN <<>>
    ELSE IF (IF extension(Head(listing)).some
             THEN extension(Head(listing)).val # <<"r", "s">> ELSE TRUE)
    THEN collect_all_entries(Tail(listing), dir, pipeline, out)
    ELSE <<Entry_new(Head(listing), dir, pipeline)>>
            \o collect_all_entries(Tail(listing), dir, pipeline, out)

\* As collect_entries, but a path without extension is let through
\* (map_or(false, ..) in place of map_or(true, ..)).
RECURSIVE collect_entries_extensionless(_, _, _, _)
collect_entries_extensionless(listing, dir, pipeline, out) ==
    IF listing = <<>> THEN <<>>
    ELSE IF (IF extension(Head(listing)).some
             THEN extension(Head(listing)).val # <<"r", "s">> ELSE FALSE)
    THEN collect_entries_extensionless(Tail(listing), dir, pipeline, out)
    ELSE IF exists(out, Entry_new(Head(listing), dir, pipeline).hash)
    THEN collect_entries_extensionless(Tail(listing), dir, pipeline, out)
    ELSE <<Entry_new(Head(listing), dir, pipeline)>>
            \o collect_entries_extensionless(Tail(listing), dir, pipeline, out)

\* The filter_map closure of collect_entries applied to the directory
\* listing, in listing order.
RECURSIVE collect_entries(_, _, _, _)
collect_entries(listing, dir, pipeline, out) ==
    IF listing = <<>> THEN <<>>
    ELSE IF (IF extension(Head(listing)).some
             THEN extension(Head(listing)).val # <<"r", "s">> ELSE TRUE)
    THEN collect_entries(Tail(listing), dir, pipeline, out)
    ELSE IF exists(out, Entry_new(Head(listing), dir, pipeline).hash)
    THEN collect_entries(Tail(listing), dir, pipeline, out)
    ELSE <<Entry_new(Head(listing), dir, pipeline)>>
            \o collect_entries(Tail(listing), dir, pipeline, out)

\* fs::read_dir yields the directory's files in an unspecified order.
read_dir(dir) ==
    LET present == {f \in DOMAIN dir : dir[f].kind # "none"}
    IN  {l \in [1..Cardinality(present) -> present] :
            \A i, j \in DOMAIN l : l[i] = l[j] => i = j}

\* The names a file of OUT_DIR can have: one wasm per stem, one marker per hash.
WasmNames ==
    {out_wasm_filename([path |-> f]) : f \in FileNames \cup {ContractDigit, ContractAB, Common}}

MarkerNames == {file_hash(c, b) : c \in Contents, b \in Pipelines}

(***************************************************************************)
(* find_workspace_root.  The ancestors of the fixtures directory, nearest  *)
(* first and the filesystem root last; each is described by its            *)
(* Cargo.toml: "absent", "package" (no [workspace]), "workspace" or        *)
(* "unreadable".                                                           *)
(***************************************************************************)
RECURSIVE find_workspace_root(_, _)
find_workspace_root(dirs, i) ==
    IF i >= Len(dirs) THEN None            \* current_dir.parent() is None
    ELSE IF dirs[i] = "unreadable" THEN None   \* read_to_string(..).ok()?
    ELSE IF dirs[i] = "workspace" THEN Some(i)
    ELSE find_workspace_root(dirs, i + 1)

Layouts == {<<"package", "workspace", "absent">>, <<"package", "absent", "absent">>}

\* What can be found where a directory's Cargo.toml would be.
DirKinds == {"absent", "package", "workspace", "unreadable"}

MaxDepth == 4

\* Every chain of directories from a starting directory up to the root.
Chains == UNION {[1..n -> DirKinds] : n \in 1..MaxDepth}

(***************************************************************************)
(* State.                                                                  *)
(***************************************************************************)
VARIABLES
    contracts_dir,  \* fixtures_dir/contracts: file name -> file
    build_rs,       \* the bytes of build.rs compiled into the script
    ancestors,      \* Cargo.toml of fixtures_dir and of each directory above it
    out_dir,        \* OUT_DIR: file name -> file
    run,            \* per invocation of main(): its position and locals
    since,          \* history: what changed since the last successful run
    commits,        \* history: (source bytes, build.rs) pairs committed
    runs,           \* history: number of invocations started
    changes,        \* history: number of edits made
    post            \* a module handed to post_process_wasm, and what is serialized

vars == <<contracts_dir, build_rs, ancestors, out_dir, run, since, commits, runs, changes, post>>

MaxRuns == 3
MaxChanges == 2

Invokers == {1}

Clean == [kind |-> "clean"]
Dirty == [kind |-> "dirty"]
Edited(f) == [kind |-> "edit", file |-> f]

IdleRun ==
    [pc |-> "idle", workspace_root |-> None, entries |-> <<>>, next |-> 1,
     tmp_dir |-> FALSE, cargo_toml |-> <<>>, result |-> "none", log |-> <<>>,
     out0 |-> <<>>, since0 |-> Dirty]

NoPost == [input |-> <<>>, output |-> <<>>, done |-> FALSE]

Event(stage, unit, status) == [stage |-> stage, unit |-> unit, status |-> status]

\* Before the first run: notes.txt and any contracts in the directory (a.rs,
\* if there, with the bytes 1: its other contents are an edit away), OUT_DIR
\* empty.
Init ==
    /\ contracts_dir \in [FileNames -> {NoFile} \cup {SourceFile(c) : c \in Contents}]
    /\ contracts_dir[Notes] = SourceFile(<<1>>)
    /\ contracts_dir[ContractA] \in {NoFile, SourceFile(<<1>>)}
    /\ build_rs = <<7>>
    /\ ancestors \in Layouts
    /\ out_dir = [n \in WasmNames \cup MarkerNames |-> NoFile]
    /\ run = [p \in Invokers |-> IdleRun]
    /\ since = Dirty
    /\ commits = {}
    /\ runs = 0
    /\ changes = 0
    /\ post = NoPost

Range(seq) == {seq[i] : i \in DOMAIN seq}

Quiet == \A p \in DOMAIN run : run[p].pc \in {"idle", "done"}

\* As Return, but the temporary directory outlives main().
ReturnKeepingTmpDir(r, status) == [r EXCEPT !.pc = "done", !.result = status]

\* Leaving main(): the result is reported and tmp_dir is dropped, which
\* removes the temporary directory.
Return(r, status) == [r EXCEPT !.pc = "done", !.result = status, !.tmp_dir = FALSE]

Logged(r, stage, unit, status) == [r EXCEPT !.log = Append(@, Event(stage, unit, status))]

\* A step of invocation p that fails at the given stage and leaves main().
Abort(p, stage, unit, status) ==
    /\ run' = [run EXCEPT ![p] = Return(Logged(run[p], stage, unit, status), status)]
    /\ since' = Dirty

\* A step of invocation p that succeeds at the given stage and goes on.
Proceed(p, stage, unit, pc) ==
    /\ run' = [run EXCEPT ![p] = [Logged(run[p], stage, unit, "ok") EXCEPT !.pc = pc]]
    /\ UNCHANGED since

(***************************************************************************)
(* main(), lines 235-238: the environment and the workspace root.          *)
(***************************************************************************)
Main_Begin(p) ==
    /\ run[p].pc \in {"idle", "done"}
    /\ runs < MaxRuns
    /\ runs' = runs + 1
    /\ IF find_workspace_root(ancestors, 1).some
       THEN /\ run' = [run EXCEPT ![p] =
                        [IdleRun EXCEPT !.pc = "scan", !.out0 = out_dir, !.since0 = since,
                                        !.workspace_root = find_workspace_root(ancestors, 1)]]
            /\ UNCHANGED since
       ELSE /\ run' = [run EXCEPT ![p] =
                        Return([IdleRun EXCEPT !.out0 = out_dir, !.since0 = since], "panic")]
            /\ since' = Dirty
    /\ UNCHANGED <<contracts_dir, build_rs, ancestors, out_dir, commits, changes, post>>

\* As Main_CollectEntries, but without the early return on no entries.
Main_CollectEntries_NoEarlyReturn(p) ==
    /\ run[p].pc = "scan"
    /\ \E listing \in read_dir(contracts_dir) :
          run' = [run EXCEPT ![p] =
                    [Logged(run[p], "scan", <<>>, "ok") EXCEPT
                        !.pc = "tempdir",
                        !.entries = collect_entries(listing, contracts_dir, build_rs, out_dir)]]
    /\ UNCHANGED <<contracts_dir, build_rs, ancestors, out_dir, since, commits, runs, changes, post>>

(***************************************************************************)
(* main(), lines 240-243: collect the entries; nothing to do is success.   *)
(* A panic of file_hash inside collect_entries ends the run.               *)
(***************************************************************************)
Main_CollectEntries(p) ==
    /\ run[p].pc = "scan"
    /\ \E listing \in read_dir(contracts_dir) :
          IF \E e \in Range(collect_entries(listing, contracts_dir, build_rs, out_dir)) :
                e.hash = ReadFailed
          THEN Abort(p, "scan", <<>>, "panic")
          ELSE IF collect_entries(listing, contracts_dir, build_rs, out_dir) = <<>>
          THEN /\ run' = [run EXCEPT ![p] = Return(Logged(run[p], "scan", <<>>, "ok"), "ok")]
               /\ since' = Clean
          ELSE /\ run' = [run EXCEPT ![p] =
                           [Logged(run[p], "scan", <<>>, "ok") EXCEPT
                               !.pc = "tempdir",
                               !.entries = collect_entries(listing, contracts_dir, build_rs, out_dir)]]
               /\ UNCHANGED since
    /\ UNCHANGED <<contracts_dir, build_rs, ancestors, out_dir, commits, runs, changes, post>>

(***************************************************************************)
(* main(), lines 245-246: tempfile::tempdir()?                             *)
(***************************************************************************)
Main_TempDir(p) ==
    /\ run[p].pc = "tempdir"
    /\ \/ /\ run' = [run EXCEPT ![p] =
                      [Logged(run[p], "tempdir", <<>>, "ok") EXCEPT !.pc = "copy", !.tmp_dir = TRUE]]
          /\ UNCHANGED since
       \/ Abort(p, "tempdir", <<>>, "err")
    /\ UNCHANGED <<contracts_dir, build_rs, ancestors, out_dir, commits, runs, changes, post>>

(***************************************************************************)
(* main(), line 247: fs::copy of .rustfmt.toml into the temporary dir.     *)
(***************************************************************************)
Main_CopyRustfmt(p) ==
    /\ run[p].pc = "copy"
    /\ \/ Proceed(p, "copy", <<>>, "cargo_toml")
       \/ Abort(p, "copy", <<>>, "err")
    /\ UNCHANGED <<contracts_dir, build_rs, ancestors, out_dir, commits, runs, changes, post>>

\* The [[bin]] array of the generated Cargo.toml.
binaries(entries) ==
    [i \in DOMAIN entries |-> [name |-> Entry_name(entries[i]), path |-> entries[i].path]]

\* A toml table without keys.
EmptyTable == <<>>

\* The document parsed at lines 103-122, as far as its targets go: the one
\* [[bin]] header of the text makes an array of one empty table.
cargo_toml_template == [package |-> "contracts", bin |-> <<EmptyTable>>]

\* As create_cargo_toml, but the targets are pushed onto the array parsed
\* from the text.
create_cargo_toml_pushing(entries) ==
    [cargo_toml_template EXCEPT !.bin = @ \o binaries(entries)]

\* create_cargo_toml, lines 124-137: cargo_toml["bin"] is assigned the array
\* of the targets, and the document is written.
create_cargo_toml(entries) ==
    [cargo_toml_template EXCEPT !.bin = binaries(entries)]

\* As Main_CreateCargoToml, but the marker of the first entry is written
\* to OUT_DIR along with the manifest.
Main_CreateCargoToml_Marking(p) ==
    /\ run[p].pc = "cargo_toml"
    /\ \/ /\ run' = [run EXCEPT ![p] =
                      [Logged(run[p], "manifest", <<>>, "ok") EXCEPT
                          !.pc = "fmt", !.cargo_toml = create_cargo_toml(run[p].entries)]]
          /\ out_dir' = [out_dir EXCEPT ![run[p].entries[1].hash] = EmptyFile]
          /\ UNCHANGED since
       \/ /\ Abort(p, "manifest", <<>>, "err")
          /\ UNCHANGED out_dir
    /\ UNCHANGED <<contracts_dir, build_rs, ancestors, commits, runs, changes, post>>

(***************************************************************************)
(* main(), line 248: create_cargo_toml; canonicalize, the toml conversion  *)
(* or the write into the temporary directory may fail.                     *)
(***************************************************************************)
Main_CreateCargoToml(p) ==
    /\ run[p].pc = "cargo_toml"
    /\ \/ /\ run' = [run EXCEPT ![p] =
                      [Logged(run[p], "manifest", <<>>, "ok") EXCEPT
                          !.pc = "fmt", !.cargo_toml = create_cargo_toml(run[p].entries)]]
          /\ UNCHANGED since
       \/ Abort(p, "manifest", <<>>, "err")
    /\ UNCHANGED <<contracts_dir, build_rs, ancestors, out_dir, commits, runs, changes, post>>

\* As Main_InvokeFmt, but the result of invoke_fmt is not propagated.
Main_InvokeFmt_Unchecked(p) ==
    /\ run[p].pc = "fmt"
    /\ \/ Proceed(p, "fmt", <<>>, "build")
       \/ /\ run' = [run EXCEPT ![p] = [Logged(run[p], "fmt", <<>>, "err") EXCEPT !.pc = "build"]]
          /\ UNCHANGED since
    /\ UNCHANGED <<contracts_dir, build_rs, ancestors, out_dir, commits, runs, changes, post>>

(***************************************************************************)
(* main(), line 249: invoke_fmt.  The process exits with success, exits    *)
(* with a failure status (bail!), or cannot be spawned (unwrap panics).    *)
(***************************************************************************)
Main_InvokeFmt(p) ==
    /\ run[p].pc = "fmt"
    /\ \/ Proceed(p, "fmt", <<>>, "build")
       \/ Abort(p, "fmt", <<>>, "err")
       \/ Abort(p, "fmt", <<>>, "panic")
    /\ UNCHANGED <<contracts_dir, build_rs, ancestors, out_dir, commits, runs, changes, post>>

\* As Main_InvokeBuild, but the result of invoke_build is not propagated.
Main_InvokeBuild_Unchecked(p) ==
    /\ run[p].pc = "build"
    /\ \/ Proceed(p, "build", <<>>, "post_process")
       \/ /\ run' = [run EXCEPT ![p] =
                      [Logged(run[p], "build", <<>>, "err") EXCEPT !.pc = "post_process"]]
          /\ UNCHANGED since
    /\ UNCHANGED <<contracts_dir, build_rs, ancestors, out_dir, commits, runs, changes, post>>

(***************************************************************************)
(* main(), line 250: invoke_build, with the same three outcomes.  It       *)
(* writes below the temporary directory only.                              *)
(***************************************************************************)
Main_InvokeBuild(p) ==
    /\ run[p].pc = "build"
    /\ \/ Proceed(p, "build", <<>>, "post_process")
       \/ Abort(p, "build", <<>>, "err")
       \/ Abort(p, "build", <<>>, "panic")
    /\ UNCHANGED <<contracts_dir, build_rs, ancestors, out_dir, commits, runs, changes, post>>

\* As WriteOutput_PostProcess, but the marker is written even when
\* post_process_wasm fails.
WriteOutput_PostProcess_Unchecked(p) ==
    /\ run[p].pc = "post_process"
    /\ \/ /\ out_dir' = [out_dir EXCEPT ![out_wasm_filename(run[p].entries[run[p].next])] =
                          WasmFile(contracts_dir[run[p].entries[run[p].next].path].bytes, build_rs, TRUE)]
          /\ Proceed(p, "post_process", run[p].entries[run[p].next].path, "marker")
       \/ /\ UNCHANGED out_dir
          /\ Proceed(p, "post_process", run[p].entries[run[p].next].path, "marker")
    /\ UNCHANGED <<contracts_dir, build_rs, ancestors, commits, runs, changes, post>>

(***************************************************************************)
(* write_output, lines 204-208: post_process_wasm of the next entry.       *)
(* deserialize_file or File::create may fail and leave OUT_DIR alone; a    *)
(* failing write leaves an incomplete file; success leaves the wasm built  *)
(* from the entry's source by this build.rs.                               *)
(***************************************************************************)
WriteOutput_PostProcess(p) ==
    /\ run[p].pc = "post_process"
    /\ \/ /\ out_dir' = [out_dir EXCEPT ![out_wasm_filename(run[p].entries[run[p].next])] =
                          WasmFile(contracts_dir[run[p].entries[run[p].next].path].bytes, build_rs, TRUE)]
          /\ Proceed(p, "post_process", run[p].entries[run[p].next].path, "marker")
       \/ /\ UNCHANGED out_dir
          /\ Abort(p, "post_process", run[p].entries[run[p].next].path, "err")
       \/ /\ out_dir' = [out_dir EXCEPT ![out_wasm_filename(run[p].entries[run[p].next])] =
                          WasmFile(contracts_dir[run[p].entries[run[p].next].path].bytes, build_rs, FALSE)]
          /\ Abort(p, "post_process", run[p].entries[run[p].next].path, "err")
    /\ UNCHANGED <<contracts_dir, build_rs, ancestors, commits, runs, changes, post>>

\* The pairs committed so far, with the one behind the wasm file `name` of
\* `dir` added when that file is complete.
Committed(dir, name) ==
    IF dir[name].kind = "wasm" /\ dir[name].complete
    THEN commits \cup {<<dir[name].bytes, dir[name].pipeline>>}
    ELSE commits

\* As WriteOutput_Marker, but the markers of other fingerprints are removed.
WriteOutput_Marker_Replacing(p) ==
    /\ run[p].pc = "marker"
    /\ \/ /\ out_dir' = [n \in DOMAIN out_dir |->
                          IF n = run[p].entries[run[p].next].hash THEN EmptyFile
                          ELSE IF n \in MarkerNames THEN NoFile
                          ELSE out_dir[n]]
          /\ commits' = Committed(out_dir, out_wasm_filename(run[p].entries[run[p].next]))
          /\ IF run[p].next = Len(run[p].entries)
             THEN /\ run' = [run EXCEPT ![p] =
                              Return(Logged(run[p], "commit", run[p].entries[run[p].next].path, "ok"), "ok")]
                  /\ since' = Clean
             ELSE /\ run' = [run EXCEPT ![p] =
                              [Logged(run[p], "commit", run[p].entries[run[p].next].path, "ok") EXCEPT
                                  !.pc = "post_process", !.next = @ + 1]]
                  /\ UNCHANGED since
       \/ /\ UNCHANGED <<out_dir, commits>>
          /\ Abort(p, "commit", run[p].entries[run[p].next].path, "err")
    /\ UNCHANGED <<contracts_dir, build_rs, ancestors, runs, changes, post>>

\* As WriteOutput_Marker, but write_output returns after its first entry.
WriteOutput_Marker_FirstOnly(p) ==
    /\ run[p].pc = "marker"
    /\ \/ /\ out_dir' = [out_dir EXCEPT ![run[p].entries[run[p].next].hash] = EmptyFile]
          /\ commits' = Committed(out_dir, out_wasm_filename(run[p].entries[run[p].next]))
          /\ run' = [run EXCEPT ![p] =
                      Return(Logged(run[p], "commit", run[p].entries[run[p].next].path, "ok"), "ok")]
          /\ since' = Clean
       \/ /\ UNCHANGED <<out_dir, commits>>
          /\ Abort(p, "commit", run[p].entries[run[p].next].path, "err")
    /\ UNCHANGED <<contracts_dir, build_rs, ancestors, runs, changes, post>>

(***************************************************************************)
(* write_output, line 209: fs::write of the marker named by the entry's    *)
(* hash; then the next entry, or Ok(()) after the last one.                *)
(***************************************************************************)
WriteOutput_Marker(p) ==
    /\ run[p].pc = "marker"
    /\ \/ /\ out_dir' = [out_dir EXCEPT ![run[p].entries[run[p].next].hash] = EmptyFile]
          /\ commits' = Committed(out_dir, out_wasm_filename(run[p].entries[run[p].next]))
          /\ IF run[p].next = Len(run[p].entries)
             THEN /\ run' = [run EXCEPT ![p] =
                              Return(Logged(run[p], "commit", run[p].entries[run[p].next].path, "ok"), "ok")]
                  /\ since' = Clean
             ELSE /\ run' = [run EXCEPT ![p] =
                              [Logged(run[p], "commit", run[p].entries[run[p].next].path, "ok") EXCEPT
                                  !.pc = "post_process", !.next = @ + 1]]
                  /\ UNCHANGED since
       \/ /\ UNCHANGED <<out_dir, commits>>
          /\ Abort(p, "commit", run[p].entries[run[p].next].path, "err")
    /\ UNCHANGED <<contracts_dir, build_rs, ancestors, runs, changes, post>>

(***************************************************************************)
(* The environment, between invocations: a contract source is written,     *)
(* created or removed, or build.rs itself is changed.                      *)
(***************************************************************************)
Recognized(f) == extension(f).some /\ extension(f).val = <<"r", "s">>

WriteSource(f, file) ==
    /\ Quiet
    /\ Recognized(f)
    /\ changes < MaxChanges
    /\ contracts_dir[f] # file
    /\ changes' = changes + 1
    /\ contracts_dir' = [contracts_dir EXCEPT ![f] = file]
    /\ since' = IF since.kind = "clean" /\ contracts_dir[f].kind = "source" /\ file.kind = "source"
                THEN Edited(f)
                ELSE Dirty
    /\ run' = [p \in DOMAIN run |-> IdleRun]
    /\ UNCHANGED <<build_rs, ancestors, out_dir, commits, runs, post>>

ChangeBuildRs(bytes) ==
    /\ Quiet
    /\ changes < MaxChanges
    /\ build_rs # bytes
    /\ changes' = changes + 1
    /\ build_rs' = bytes
    /\ since' = Dirty
    /\ run' = [p \in DOMAIN run |-> IdleRun]
    /\ UNCHANGED <<contracts_dir, ancestors, out_dir, commits, runs, post>>

Next ==
    \/ \E p \in Invokers : Main_Begin(p)
    \/ \E p \in Invokers : Main_CollectEntries(p)
    \/ \E p \in Invokers : Main_TempDir(p)
    \/ \E p \in Invokers : Main_CopyRustfmt(p)
    \/ \E p \in Invokers : Main_CreateCargoToml(p)
    \/ \E p \in Invokers : Main_InvokeFmt(p)
    \/ \E p \in Invokers : Main_InvokeBuild(p)
    \/ \E p \in Invokers : WriteOutput_PostProcess(p)
    \/ \E p \in Invokers : WriteOutput_Marker(p)
    \/ \E f \in DOMAIN contracts_dir, c \in Contents : WriteSource(f, SourceFile(c))
    \/ \E f \in DOMAIN contracts_dir : WriteSource(f, NoFile)
    \/ \E b \in Pipelines : ChangeBuildRs(b)

Spec == Init /\ [][Next]_vars

\* The same program over a directory in which a contract may be named 1.rs.
NamesInit ==
    /\ contracts_dir \in [{ContractDigit, ContractA} -> {NoFile} \cup {SourceFile(c) : c \in Contents}]
    /\ build_rs = <<7>>
    /\ ancestors = <<"package", "workspace", "absent">>
    /\ out_dir = [n \in WasmNames \cup MarkerNames |-> NoFile]
    /\ run = [p \in Invokers |-> IdleRun]
    /\ since = Dirty
    /\ commits = {}
    /\ runs = 0
    /\ changes = 0
    /\ post = NoPost

NamesSpec == NamesInit /\ [][Next]_vars

\* The same program over a directory in which two contracts share the
\* beginning of their names, with or without children that are no contracts:
\* a text file and a subdirectory.
ListingInit ==
    /\ contracts_dir \in [{ContractA, ContractAB, Notes, Common} ->
                            {NoFile, Directory} \cup {SourceFile(c) : c \in Contents}]
    /\ contracts_dir[ContractA] = NoFile
    /\ contracts_dir[ContractAB] = SourceFile(<<1>>)
    /\ <<contracts_dir[Notes], contracts_dir[Common]>>
          \in {<<NoFile, NoFile>>, <<SourceFile(<<1>>), Directory>>}
    /\ build_rs = <<7>>
    /\ ancestors = <<"package", "workspace", "absent">>
    /\ out_dir = [n \in WasmNames \cup MarkerNames |-> NoFile]
    /\ run = [p \in Invokers |-> IdleRun]
    /\ since = Dirty
    /\ commits = {}
    /\ runs = 0
    /\ changes = 0
    /\ post = NoPost

ListingSpec == ListingInit /\ [][Next]_vars

\* main() up to the resolution of the workspace root, from any starting
\* directory.
RootInit ==
    /\ contracts_dir = [f \in FileNames |-> NoFile]
    /\ build_rs = <<7>>
    /\ ancestors \in Chains
    /\ out_dir = [n \in WasmNames \cup MarkerNames |-> NoFile]
    /\ run = [p \in Invokers |-> IdleRun]
    /\ since = Dirty
    /\ commits = {}
    /\ runs = 0
    /\ changes = 0
    /\ post = NoPost

RootNext == \E p \in Invokers : Main_Begin(p)

RootSpec == RootInit /\ [][RootNext]_vars

TypeOK ==
    /\ \A f \in DOMAIN contracts_dir : contracts_dir[f].kind \in {"none", "source", "dir"}
    /\ build_rs \in Pipelines
    /\ \A n \in WasmNames : out_dir[n].kind \in {"none", "wasm"}
    /\ \A n \in MarkerNames : out_dir[n].kind \in {"none", "empty"}
    /\ \A p \in DOMAIN run : run[p].next \in 1..(Len(run[p].entries) + 1)

(***************************************************************************)
(* Properties of main().                                                   *)
(***************************************************************************)
Scanned(r) == r.log # <<>>

Survivors(r) == {r.entries[i].path : i \in DOMAIN r.entries}

Invoked(r, stage) == \E i \in DOMAIN r.log : r.log[i].stage = stage

Failed(r, stage) == \E i \in DOMAIN r.log : r.log[i].stage = stage /\ r.log[i].status # "ok"

Contracts == {f \in DOMAIN contracts_dir : Recognized(f) /\ contracts_dir[f].kind = "source"}

\* C1: a run started right after a successful run, with nothing changed in
\* between, stops after the scan: it invokes neither the formatter nor the
\* compiler, returns success and leaves OUT_DIR as it found it.
Idempotence ==
    \A p \in DOMAIN run :
        (run[p].pc # "idle" /\ run[p].since0.kind = "clean") =>
            /\ run[p].pc \in {"scan", "done"}
            /\ ~Invoked(run[p], "fmt")
            /\ ~Invoked(run[p], "build")
            /\ ~Invoked(run[p], "tempdir")
            /\ out_dir = run[p].out0
            /\ (run[p].pc = "done" => run[p].result = "ok")

\* C1 witness: the second of two runs over unchanged contracts has ended,
\* and the first one had committed something.
IdempotenceWitness ==
    \E p \in DOMAIN run :
        /\ run[p].pc = "done"
        /\ run[p].since0.kind = "clean"
        /\ run[p].result = "ok"
        /\ \E h \in MarkerNames : exists(out_dir, h)

\* C2 (as claimed): in the run that follows a successful run and the edit of
\* exactly one contract, exactly that contract survives the cache filter.
FingerprintSensitivity ==
    \A p \in DOMAIN run :
        (Scanned(run[p]) /\ run[p].since0.kind = "edit") =>
            Survivors(run[p]) = {run[p].since0.file}

\* C3: a marker exists in OUT_DIR exactly for the fingerprints of the
\* (source bytes, build.rs) pairs whose wasm and marker have both been
\* written by some run.
MarkerInvariant ==
    \A h \in MarkerNames :
        exists(out_dir, h) <=> \E c \in commits : file_hash(c[1], c[2]) = h

\* C3 witness: markers exist after a run that failed while writing its output.
MarkerInvariantWitness ==
    /\ \E h \in MarkerNames : exists(out_dir, h)
    /\ \E p \in DOMAIN run : run[p].pc = "done" /\ Failed(run[p], "post_process")

\* A complete wasm file of that name is in the directory.
HasWasm(dir, name) == exists(dir, name) /\ dir[name].kind = "wasm" /\ dir[name].complete

\* C4 (as claimed): after a run whose build failed, OUT_DIR holds neither a
\* wasm nor a marker for any contract of that build.
FailFastAtomicityClaimed ==
    \A p \in DOMAIN run :
        Failed(run[p], "build") =>
            \A i \in DOMAIN run[p].entries :
                /\ ~HasWasm(out_dir, out_wasm_filename(run[p].entries[i]))
                /\ ~exists(out_dir, run[p].entries[i].hash)

\* C4 (amended): after a run whose build failed, OUT_DIR is as the run found
\* it, and it holds no marker for the fingerprint of any contract of that
\* build; a wasm of such a contract is there only if an earlier run wrote it.
FailFastAtomicity ==
    \A p \in DOMAIN run :
        Failed(run[p], "build") =>
            /\ out_dir = run[p].out0
            /\ \A i \in DOMAIN run[p].entries : ~exists(out_dir, run[p].entries[i].hash)

\* C4 witness: the build failed for a contract whose previous wasm is still
\* in OUT_DIR.
FailFastAtomicityWitness ==
    \E p \in DOMAIN run :
        /\ run[p].pc = "done"
        /\ Failed(run[p], "build")
        /\ \E i \in DOMAIN run[p].entries :
              HasWasm(out_dir, out_wasm_filename(run[p].entries[i]))

\* C7 (as claimed): a contract dropped by the cache check never has, in
\* OUT_DIR, a wasm produced by another version of build.rs.
PipelineSaltInvalidation ==
    \A p \in DOMAIN run :
        Scanned(run[p]) =>
            \A f \in Contracts \ Survivors(run[p]) :
                HasWasm(out_dir, out_wasm_filename([path |-> f])) =>
                    out_dir[out_wasm_filename([path |-> f])].pipeline = build_rs

\* C8 (as claimed): when post_process_wasm or the write of the marker fails
\* for an entry, no marker named by that entry's hash is in OUT_DIR.
CommitAtomicPerUnit ==
    \A p \in DOMAIN run :
        (run[p].pc = "done" /\ (Failed(run[p], "post_process") \/ Failed(run[p], "commit"))) =>
            ~exists(out_dir, run[p].entries[run[p].next].hash)

\* The stages of a run over the given entries, in the order of main().
StageOrder(entries) ==
    <<"scan", "tempdir", "copy", "manifest", "fmt", "build">>
        \o [i \in 1..(2 * Len(entries)) |-> IF i % 2 = 1 THEN "post_process" ELSE "commit"]

\* C9: the stages of a run happen in the order of main(), the entries being
\* post-processed and committed one after the other; a stage that fails is
\* the last one of its run, and the run then ends with that failure.
FailFastStaging ==
    \A p \in DOMAIN run :
        /\ Len(run[p].log) <= Len(StageOrder(run[p].entries))
        /\ \A i \in DOMAIN run[p].log :
              /\ run[p].log[i].stage = StageOrder(run[p].entries)[i]
              /\ i > 6 => run[p].log[i].unit = run[p].entries[(i - 5) \div 2].path
              /\ run[p].log[i].status # "ok" =>
                    /\ i = Len(run[p].log)
                    /\ run[p].pc = "done"
                    /\ run[p].result = run[p].log[i].status
        /\ (run[p].pc = "done" /\ run[p].result = "ok" /\ run[p].entries # <<>>) =>
              Len(run[p].log) = Len(StageOrder(run[p].entries))

\* C9 witness: of two entries the first failed in post-processing, and the
\* run ended there.
FailFastStagingWitness ==
    \E p \in DOMAIN run :
        /\ run[p].pc = "done"
        /\ Len(run[p].entries) = 2
        /\ Len(run[p].log) = 7
        /\ run[p].log[7].status = "err"

\* C10: the temporary directory exists only between its creation and the
\* end of the run, and a run without entries never creates one.
ScratchReleased ==
    \A p \in DOMAIN run :
        /\ run[p].pc = "done" => ~run[p].tmp_dir
        /\ run[p].tmp_dir => Invoked(run[p], "tempdir")
        /\ (Scanned(run[p]) /\ run[p].entries = <<>>) =>
              (~run[p].tmp_dir /\ ~Invoked(run[p], "tempdir"))

\* C10 witness: a run that had created its temporary directory ended in a
\* failure.
ScratchReleasedWitness ==
    \E p \in DOMAIN run :
        /\ run[p].pc = "done"
        /\ run[p].result # "ok"
        /\ \E i \in DOMAIN run[p].log :
              run[p].log[i].stage = "tempdir" /\ run[p].log[i].status = "ok"

\* The contracts without a marker for their fingerprint in the directory
\* `out`: what the cache check of collect_entries lets through, whatever the
\* order of the listing.
Unbuilt(out) ==
    {f \in Contracts : ~exists(out, file_hash(contracts_dir[f].bytes, build_rs))}

\* C11 (as claimed): a run that finds nothing to build returns success
\* without a temporary directory, the formatter or the compiler, and leaves
\* OUT_DIR alone, whether or not a workspace root can be found.
NoOpOnEmptyClaimed ==
    \A p \in DOMAIN run :
        (run[p].pc = "done" /\ Unbuilt(run[p].out0) = {}) =>
            /\ run[p].result = "ok"
            /\ ~Invoked(run[p], "tempdir")
            /\ ~Invoked(run[p], "fmt")
            /\ ~Invoked(run[p], "build")
            /\ out_dir = run[p].out0

\* C11 (amended): once the workspace root has been found, a run that finds
\* nothing to build stops after the scan: it returns success, never has a
\* temporary directory, invokes neither the formatter nor the compiler and
\* leaves OUT_DIR as it found it.
NoOpOnEmpty ==
    \A p \in DOMAIN run :
        (/\ run[p].pc # "idle"
         /\ find_workspace_root(ancestors, 1).some
         /\ Unbuilt(run[p].out0) = {}) =>
            /\ run[p].pc \in {"scan", "done"}
            /\ run[p].entries = <<>>
            /\ run[p].pc = "done" => (run[p].result = "ok" /\ Scanned(run[p]))
            /\ ~run[p].tmp_dir
            /\ ~Invoked(run[p], "tempdir")
            /\ ~Invoked(run[p], "fmt")
            /\ ~Invoked(run[p], "build")
            /\ out_dir = run[p].out0

\* C11 witness: a run over a directory that holds no contract, only a file
\* that is not one, has returned success.
NoOpOnEmptyWitness ==
    \E p \in DOMAIN run :
        /\ run[p].pc = "done"
        /\ run[p].result = "ok"
        /\ Contracts = {}
        /\ contracts_dir[Notes].kind = "source"

\* The markers of a directory.
Markers(dir) == {h \in MarkerNames : exists(dir, h)}

\* The directory holds no file.
Fresh(dir) == \A n \in DOMAIN dir : dir[n].kind = "none"

\* C12 (as claimed): after a successful run over two contracts that started
\* from an empty OUT_DIR, OUT_DIR holds the wasm of each and two markers,
\* named by their fingerprints.
FreshBuildClaimed ==
    \A p \in DOMAIN run :
        (/\ run[p].pc = "done" /\ run[p].result = "ok"
         /\ Fresh(run[p].out0)
         /\ Contracts = {ContractA, ContractB}) =>
            /\ \A f \in Contracts :
                  /\ HasWasm(out_dir, out_wasm_filename([path |-> f]))
                  /\ exists(out_dir, file_hash(contracts_dir[f].bytes, build_rs))
            /\ Cardinality(Markers(out_dir)) = 2

\* C12 (amended): after a successful run every surviving entry has in OUT_DIR
\* its wasm, built from its source by this build.rs, and the marker named by
\* its fingerprint; when the run started from an empty OUT_DIR every contract
\* survived, and OUT_DIR holds exactly the wasm files of the contracts and the
\* markers named by their fingerprints, one marker for contracts of the same
\* bytes.
FreshBuild ==
    \A p \in DOMAIN run :
        (run[p].pc = "done" /\ run[p].result = "ok") =>
            /\ \A i \in DOMAIN run[p].entries :
                  /\ HasWasm(out_dir, out_wasm_filename(run[p].entries[i]))
                  /\ out_dir[out_wasm_filename(run[p].entries[i])]
                        = WasmFile(contracts_dir[run[p].entries[i].path].bytes, build_rs, TRUE)
                  /\ exists(out_dir, run[p].entries[i].hash)
            /\ Fresh(run[p].out0) =>
                  /\ Survivors(run[p]) = Contracts
                  /\ Markers(out_dir)
                        = {file_hash(contracts_dir[f].bytes, build_rs) : f \in Contracts}
                  /\ {n \in WasmNames : exists(out_dir, n)}
                        = {out_wasm_filename([path |-> f]) : f \in Contracts}

\* C12 witness: a successful run from an empty OUT_DIR over two contracts
\* of the same bytes has left two wasm files and one marker.
FreshBuildWitness ==
    \E p \in DOMAIN run :
        /\ run[p].pc = "done" /\ run[p].result = "ok"
        /\ Fresh(run[p].out0)
        /\ Contracts = {ContractA, ContractB}
        /\ contracts_dir[ContractA] = contracts_dir[ContractB]
        /\ HasWasm(out_dir, out_wasm_filename([path |-> ContractA]))
        /\ HasWasm(out_dir, out_wasm_filename([path |-> ContractB]))
        /\ Cardinality(Markers(out_dir)) = 1

\* C13: the hash of every entry of every run is the fingerprint of the bytes
\* of its file and of build.rs, whatever its path, whatever OUT_DIR holds;
\* so entries of the same bytes have the same hash.
FingerprintDeterminism ==
    \A p \in DOMAIN run :
        \A i \in DOMAIN run[p].entries :
            /\ run[p].entries[i].hash
                  = file_hash(contracts_dir[run[p].entries[i].path].bytes, build_rs)
            /\ \A q \in DOMAIN run :
                  \A j \in DOMAIN run[q].entries :
                      contracts_dir[run[q].entries[j].path].bytes
                            = contracts_dir[run[p].entries[i].path].bytes
                          => run[q].entries[j].hash = run[p].entries[i].hash

\* C13 witness: a run that did not start from an empty OUT_DIR has two
\* entries of different paths, the same bytes and the same hash.
FingerprintDeterminismWitness ==
    \E p \in DOMAIN run :
        /\ Len(run[p].entries) = 2
        /\ ~Fresh(run[p].out0)
        /\ run[p].entries[1].path # run[p].entries[2].path
        /\ contracts_dir[run[p].entries[1].path] = contracts_dir[run[p].entries[2].path]
        /\ run[p].entries[1].hash = run[p].entries[2].hash

\* C14 (as claimed): whenever the scan drops a contract because its marker
\* exists, OUT_DIR holds under the contract's wasm name a complete wasm built
\* from the bytes the contract has now.
CacheCoherence ==
    \A p \in DOMAIN run :
        Scanned(run[p]) =>
            \A f \in Contracts \ Survivors(run[p]) :
                /\ HasWasm(out_dir, out_wasm_filename([path |-> f]))
                /\ out_dir[out_wasm_filename([path |-> f])].bytes = contracts_dir[f].bytes

\* The run has ended in a failure before write_output was reached.
PreCommitFailure(r) == r.pc = "done" /\ r.result # "ok" /\ ~Invoked(r, "post_process")

\* C15: after a run that failed before write_output (no workspace root, the
\* temporary directory, the copy of .rustfmt.toml, the manifest, the format
\* check or the build), OUT_DIR is as the run found it, and a scan of the same
\* contracts now yields the entries that run had, in any order of listing.
StateUnchangedOnPreCommitFailure ==
    \A p \in DOMAIN run :
        PreCommitFailure(run[p]) =>
            /\ out_dir = run[p].out0
            /\ Unbuilt(out_dir) = Unbuilt(run[p].out0)
            /\ Scanned(run[p]) =>
                  \A listing \in read_dir(contracts_dir) :
                      Survivors([entries |->
                          collect_entries(listing, contracts_dir, build_rs, out_dir)])
                        = Survivors(run[p])

\* C15 witness: the format check failed in a run that had entries and did
\* not start from an empty OUT_DIR.
StateUnchangedOnPreCommitFailureWitness ==
    \E p \in DOMAIN run :
        /\ PreCommitFailure(run[p])
        /\ Failed(run[p], "fmt")
        /\ run[p].entries # <<>>
        /\ Markers(out_dir) # {}

\* The file `n` of OUT_DIR is a marker, or a complete wasm whose marker has
\* been written.
CommittedFile(n) ==
    \/ n \in MarkerNames /\ exists(out_dir, n)
    \/ /\ n \in WasmNames
       /\ HasWasm(out_dir, n)
       /\ <<out_dir[n].bytes, out_dir[n].pipeline>> \in commits

\* The run is in write_output.
InWriteOutput(r) == r.pc \in {"post_process", "marker"}

\* C16 (as claimed): OUT_DIR changes only in write_output, and no step
\* removes or replaces a wasm or a marker committed earlier.
OutputDirDisciplineClaimed ==
    [][/\ out_dir' # out_dir => \E p \in DOMAIN run : InWriteOutput(run[p])
       /\ \A n \in DOMAIN out_dir : CommittedFile(n) => out_dir'[n] = out_dir[n]]_vars

\* C16 (amended): OUT_DIR changes only in write_output, and there only
\* under the wasm name and the hash of the entry at hand; no file is ever
\* removed and no marker is ever changed; a wasm is replaced only by the
\* post-processing of an entry of that name.
OutputDirDiscipline ==
    [][/\ out_dir' # out_dir => \E p \in DOMAIN run : InWriteOutput(run[p])
       /\ \A n \in DOMAIN out_dir :
             /\ exists(out_dir, n) => exists(out_dir', n)
             /\ (n \in MarkerNames /\ exists(out_dir, n)) => out_dir'[n] = out_dir[n]
             /\ out_dir'[n] # out_dir[n] =>
                   \E p \in DOMAIN run :
                       \/ /\ run[p].pc = "post_process"
                          /\ n = out_wasm_filename(run[p].entries[run[p].next])
                       \/ /\ run[p].pc = "marker"
                          /\ n = run[p].entries[run[p].next].hash]_vars

\* C16 witness: a run has replaced the committed wasm of a contract by the
\* wasm of the contract's new bytes; the old marker is still there.
OutputDirDisciplineWitness ==
    \E p \in DOMAIN run, n \in WasmNames :
        /\ HasWasm(run[p].out0, n)
        /\ exists(run[p].out0, file_hash(run[p].out0[n].bytes, run[p].out0[n].pipeline))
        /\ HasWasm(out_dir, n)
        /\ out_dir[n] # run[p].out0[n]
        /\ exists(out_dir, file_hash(run[p].out0[n].bytes, run[p].out0[n].pipeline))

\* C17 (as claimed, for a single invocation): the marker named by the
\* fingerprint of a contract is in OUT_DIR only once a wasm of that contract
\* has been written there.
MarkerAfterBinary ==
    \A f \in Contracts :
        exists(out_dir, file_hash(contracts_dir[f].bytes, build_rs)) =>
            exists(out_dir, out_wasm_filename([path |-> f]))

\* The characters of an identifier.
Letters ==
    {"a", "b", "c", "d", "e", "f", "g", "h", "i", "j", "k", "l", "m",
     "n", "o", "p", "q", "r", "s", "t", "u", "v", "w", "x", "y", "z", "_"}

Digits == {"0", "1", "2", "3", "4", "5", "6", "7", "8", "9"}

\* The name is an identifier: a letter or an underscore, then letters,
\* digits and underscores.
ValidIdentifier(name) ==
    /\ name # <<>>
    /\ name[1] \in Letters
    /\ \A i \in DOMAIN name : name[i] \in Letters \cup Digits

\* C18 (as claimed): when the name of a surviving entry is not an
\* identifier, create_cargo_toml fails, and neither the formatter nor the
\* compiler is invoked.
InvalidNamesRejected ==
    \A p \in DOMAIN run :
        (\E i \in DOMAIN run[p].entries : ~ValidIdentifier(Entry_name(run[p].entries[i]))) =>
            /\ Invoked(run[p], "manifest") => Failed(run[p], "manifest")
            /\ ~Invoked(run[p], "fmt")
            /\ ~Invoked(run[p], "build")

\* The directories of the chain whose Cargo.toml declares a workspace.
Workspaces == {i \in DOMAIN ancestors : ancestors[i] = "workspace"}

\* C19 (as claimed): the walk returns the nearest directory, at or above
\* the start and up to the root, whose Cargo.toml declares a workspace, and
\* finds none exactly when there is none; no other directory stops it.
WorkspaceRootResolution ==
    \A p \in DOMAIN run :
        run[p].pc # "idle" =>
            IF Workspaces = {}
            THEN ~run[p].workspace_root.some /\ run[p].result = "panic"
            ELSE /\ run[p].workspace_root.some
                 /\ run[p].workspace_root.val \in Workspaces
                 /\ \A i \in Workspaces : run[p].workspace_root.val <= i

\* The run has written its Cargo.toml.
ManifestWritten(r) ==
    \E i \in DOMAIN r.log : r.log[i].stage = "manifest" /\ r.log[i].status = "ok"

\* C20: the Cargo.toml a run writes has one [[bin]] target for each contract
\* that had no marker when the run began, with the contract's file stem as
\* name and its path as path, each once, whatever the order of the listing;
\* it has no other target and no table without keys.
ManifestCompleteness ==
    \A p \in DOMAIN run :
        ManifestWritten(run[p]) =>
            LET unbuilt == Unbuilt(run[p].out0)
                bin == run[p].cargo_toml.bin
            IN  /\ Len(bin) = Cardinality(unbuilt)
                /\ \A i \in DOMAIN bin :
                      /\ DOMAIN bin[i] = {"name", "path"}
                      /\ bin[i].path \in unbuilt
                      /\ bin[i].path = run[p].entries[i].path
                      /\ bin[i].name = file_stem(bin[i].path)
                /\ \A f \in unbuilt :
                      Cardinality({i \in DOMAIN bin : bin[i].path = f}) = 1

\* C20 witness: of two contracts one was dropped by the cache check, and the
\* Cargo.toml written has the other as its only target.
ManifestCompletenessWitness ==
    \E p \in DOMAIN run :
        /\ ManifestWritten(run[p])
        /\ Contracts = {ContractA, ContractB}
        /\ Len(run[p].cargo_toml.bin) = 1
        /\ run[p].cargo_toml.bin[1] = [name |-> <<"b">>, path |-> ContractB]

\* C21: the entries of a run have different names and different wasm file
\* names, one pair for each of their paths; so the post-processing steps of
\* one run write files of different names.
UnitNameUniqueness ==
    \A p \in DOMAIN run :
        /\ \A i, j \in DOMAIN run[p].entries :
              i # j =>
                  /\ run[p].entries[i].path # run[p].entries[j].path
                  /\ Entry_name(run[p].entries[i]) # Entry_name(run[p].entries[j])
                  /\ out_wasm_filename(run[p].entries[i]) # out_wasm_filename(run[p].entries[j])
        /\ \A i, j \in DOMAIN run[p].log :
              (/\ i # j
               /\ run[p].log[i].stage = "post_process"
               /\ run[p].log[j].stage = "post_process") =>
                  out_wasm_filename([path |-> run[p].log[i].unit])
                    # out_wasm_filename([path |-> run[p].log[j].unit])

\* C21 witness: a run has committed a.rs and a.b.rs, and OUT_DIR holds
\* a.wasm and a.b.wasm, each built from its own source.
UnitNameUniquenessWitness ==
    \E p \in DOMAIN run :
        /\ run[p].pc = "done" /\ run[p].result = "ok"
        /\ Survivors(run[p]) = {ContractA, ContractAB}
        /\ contracts_dir[ContractA] # contracts_dir[ContractAB]
        /\ out_dir[out_wasm_filename([path |-> ContractA])]
              = WasmFile(contracts_dir[ContractA].bytes, build_rs, TRUE)
        /\ out_dir[out_wasm_filename([path |-> ContractAB])]
              = WasmFile(contracts_dir[ContractAB].bytes, build_rs, TRUE)
        /\ out_wasm_filename([path |-> ContractAB]) = <<"a", ".", "b", ".", "w", "a", "s", "m">>

\* C22: a child of the directory whose extension is not rs, or that has
\* none, never makes the scan fail, is never read for its hash, never becomes
\* an entry, a target of the manifest or a wasm of OUT_DIR; and the scan
\* returns what it returns for the listing without such children.
UnrecognizedIgnored ==
    \A p \in DOMAIN run :
        Scanned(run[p]) =>
            /\ run[p].log[1] = Event("scan", <<>>, "ok")
            /\ \A e \in Range(run[p].entries) : Recognized(e.path) /\ e.hash # ReadFailed
            /\ \A i \in DOMAIN run[p].log :
                  run[p].log[i].unit = <<>> \/ Recognized(run[p].log[i].unit)
            /\ ManifestWritten(run[p]) =>
                  \A t \in Range(run[p].cargo_toml.bin) : Recognized(t.path)
            /\ \A f \in DOMAIN contracts_dir :
                  ~Recognized(f) => ~exists(out_dir, out_wasm_filename([path |-> f]))
            /\ Len(run[p].log) = 1 =>
                  \A listing \in read_dir(contracts_dir) :
                      LET kept == collect_entries(SelectSeq(listing, Recognized),
                                                  contracts_dir, build_rs, run[p].out0)
                      IN  /\ collect_entries(listing, contracts_dir, build_rs, run[p].out0) = kept
                          /\ Survivors(run[p]) = {e.path : e \in Range(kept)}

\* C22 witness: a run over a directory that holds, next to its contracts, a
\* text file and a subdirectory has committed its entries.
UnrecognizedIgnoredWitness ==
    \E p \in DOMAIN run :
        /\ run[p].pc = "done" /\ run[p].result = "ok"
        /\ run[p].entries # <<>>
        /\ contracts_dir[Notes].kind = "source"
        /\ contracts_dir[Common] = Directory

(***************************************************************************)
(* post_process_wasm.  A module is its sequence of sections; the body of   *)
(* an export section is its sequence of entries, each with a field name    *)
(* and the kind of item it exports (Internal).                             *)
(***************************************************************************)
MaxExports == 2
MaxSections == 3

ExportEntries ==
    {[field |-> f, internal |-> k] :
        f \in {"call", "deploy", "helper"}, k \in {"Function", "Memory"}}

ExportSections ==
    {[kind |-> "Export", body |-> b] :
        b \in UNION {[1..n -> ExportEntries] : n \in 0..MaxExports}}

OtherSections == {[kind |-> k, body |-> <<1>>] : k \in {"Type", "Code"}}

\* The sequences of n sections none of which is an export section.
OtherSequences(n) == [1..n -> OtherSections]

\* The modules the compiler may hand over: up to MaxSections sections, at
\* most one of them an export section, at any position.
Modules ==
    UNION {OtherSequences(n) : n \in 0..MaxSections}
    \cup UNION {UNION {{before \o <<section>> \o after :
                            before \in OtherSequences(k),
                            section \in ExportSections,
                            after \in OtherSequences(n - k)} :
                        k \in 0..n} :
                 n \in 0..(MaxSections - 1)}

\* Module::export_section_mut: the position of the export section, 0 if none.
RECURSIVE export_section_mut(_, _)
export_section_mut(module, i) ==
    IF i > Len(module) THEN 0
    ELSE IF module[i].kind = "Export" THEN i
    ELSE export_section_mut(module, i + 1)

\* As keep_export, but any kind of export may keep the two names.
keep_export_by_name(entry) == entry.field = "call" \/ entry.field = "deploy"

\* The closure handed to retain.
keep_export(entry) ==
    entry.internal = "Function" /\ (entry.field = "call" \/ entry.field = "deploy")

\* Vec::retain
RECURSIVE retain(_)
retain(entries) ==
    IF entries = <<>> THEN <<>>
    ELSE IF keep_export(Head(entries)) THEN <<Head(entries)>> \o retain(Tail(entries))
    ELSE retain(Tail(entries))

\* As post_process_wasm, but an export section left empty is removed.
post_process_wasm_dropping(module) ==
    IF export_section_mut(module, 1) = 0 THEN module
    ELSE IF retain(module[export_section_mut(module, 1)].body) = <<>>
    THEN SubSeq(module, 1, export_section_mut(module, 1) - 1)
            \o SubSeq(module, export_section_mut(module, 1) + 1, Len(module))
    ELSE [module EXCEPT ![export_section_mut(module, 1)].body = retain(@)]

post_process_wasm(module) ==
    IF export_section_mut(module, 1) = 0 THEN module
    ELSE [module EXCEPT ![export_section_mut(module, 1)].body = retain(@)]

PostProcessInit ==
    /\ contracts_dir = [f \in FileNames |-> NoFile]
    /\ build_rs = <<7>>
    /\ ancestors = <<"package", "workspace", "absent">>
    /\ out_dir = [n \in WasmNames \cup MarkerNames |-> NoFile]
    /\ run = [p \in Invokers |-> IdleRun]
    /\ since = Dirty
    /\ commits = {}
    /\ runs = 0
    /\ changes = 0
    /\ post \in {[input |-> m, output |-> <<>>, done |-> FALSE] : m \in Modules}

PostProcessWasm ==
    /\ ~post.done
    /\ post' = [post EXCEPT !.output = post_process_wasm(post.input), !.done = TRUE]
    /\ UNCHANGED <<contracts_dir, build_rs, ancestors, out_dir, run, since, commits, runs, changes>>

PostProcessNext == PostProcessWasm

PostProcessSpec == PostProcessInit /\ [][PostProcessNext]_vars

\* The export entries of a module: those of its export section, if any.
Exports(module) ==
    IF \E i \in DOMAIN module : module[i].kind = "Export"
    THEN module[CHOOSE i \in DOMAIN module : module[i].kind = "Export"].body
    ELSE <<>>

\* The k-th smallest element of a set of numbers.
KthOf(S, k) == CHOOSE i \in S : Cardinality({j \in S : j < i}) = k - 1

\* C5: after post-processing, the export entries are exactly the input's
\* function exports named "call" or "deploy", in their original order.
ExportMinimization ==
    post.done =>
        LET sanctioned == {i \in DOMAIN Exports(post.input) :
                            /\ Exports(post.input)[i].internal = "Function"
                            /\ Exports(post.input)[i].field \in {"call", "deploy"}}
        IN  /\ Len(Exports(post.output)) = Cardinality(sanctioned)
            /\ \A k \in DOMAIN Exports(post.output) :
                  Exports(post.output)[k] = Exports(post.input)[KthOf(sanctioned, k)]

\* C5 witness: a memory exported as "call" is dropped while a function is kept.
ExportMinimizationWitness ==
    /\ post.done
    /\ \E i \in DOMAIN Exports(post.input) :
          /\ Exports(post.input)[i].field = "call"
          /\ Exports(post.input)[i].internal = "Memory"
    /\ Len(Exports(post.output)) = 1

\* C6: post-processing keeps the number, the kinds and the positions of the
\* sections, and every section other than the export section is unchanged.
OnlyExportSectionChanges ==
    post.done =>
        /\ Len(post.output) = Len(post.input)
        /\ \A i \in DOMAIN post.input :
              /\ post.output[i].kind = post.input[i].kind
              /\ post.input[i].kind # "Export" => post.output[i] = post.input[i]

\* C6 witness: an export section between two other sections lost all its
\* entries.
OnlyExportSectionChangesWitness ==
    /\ post.done
    /\ Len(post.input) = 3
    /\ post.input[2].kind = "Export"
    /\ post.input[2].body # <<>>
    /\ post.output[2].body = <<>>
====
